---- MODULE Spec2Model ----
(***************************************************************************)
(* Model of middleware/validateTwilio.js (class TwilioSignatureValidator)  *)
(* and of the way server.js constructs and uses it.                        *)
(*                                                                         *)
(* Strings are sequences of character codes (0..255), so that the default  *)
(* Array.prototype.sort order, base64 text and single-bit changes of a     *)
(* character can all be computed.  Buffers are sequences of bytes.         *)
(***************************************************************************)
EXTENDS Integers, Sequences, FiniteSets, TLC

VARIABLES validator, ctor, req, res, prev

vars == <<validator, ctor, req, res, prev>>

----------------------------------------------------------------------------
(* JavaScript values *)

\* The JS value undefined, where a string is expected (no string holds -1).
Undefined == <<-1>>

\* !v for a string-or-undefined value: undefined and "" are falsy.
Falsy(v) == v = Undefined \/ v = <<>>

\* req.body when no body parser filled it in.
UndefinedParams == << <<Undefined, Undefined>> >>

\* An argument of the constructor: an array of tokens, or a single value.
Arr(items) == [isArray |-> TRUE, items |-> items]

Single(tok) == [isArray |-> FALSE, value |-> tok]

\* F applied to the value of e, e evaluated once (const x = e; F(x)).
Const(e, F(_)) == CHOOSE y \in {F(x) : x \in {e}} : TRUE

----------------------------------------------------------------------------
(* Strings *)

RECURSIVE StrLess(_, _)
\* a < b for two strings, as the default sort comparison does: by code unit,
\* a proper prefix first.
StrLess(a, b) ==
  IF b = <<>> THEN FALSE
  ELSE IF a = <<>> THEN TRUE
  ELSE IF a[1] # b[1] THEN a[1] < b[1]
  ELSE StrLess(Tail(a), Tail(b))

RECURSIVE Insert(_, _)
Insert(k, sorted) ==
  IF sorted = <<>> THEN <<k>>
  ELSE IF StrLess(sorted[1], k) \/ sorted[1] = k
       THEN <<sorted[1]>> \o Insert(k, Tail(sorted))
       ELSE <<k>> \o sorted

RECURSIVE SortSteps(_, _)
SortSteps(keys, acc) ==
  IF keys = <<>> THEN acc ELSE SortSteps(Tail(keys), Insert(keys[1], acc))

\* keys.sort(): the keys in ascending code-unit order.
SortM(keys) == keys

Sort(keys) == SortSteps(keys, <<>>)

\* Object.keys(params): the own keys in insertion order.
ObjectKeys(params) == [i \in 1..Len(params) |-> params[i][1]]

\* params[key]
Lookup(params, key) ==
  LET i == CHOOSE j \in 1..Len(params) : params[j][1] = key IN params[i][2]

RECURSIVE Reduce(_, _, _), ReduceM(_, _, _)
\* A reduce that leaves the values out.
ReduceM(keys, params, acc) ==
  IF keys = <<>> THEN acc ELSE ReduceM(Tail(keys), params, acc \o keys[1])

\* keys.reduce((acc, key) => acc + key + params[key], acc)
Reduce(keys, params, acc) ==
  IF keys = <<>> THEN acc
  ELSE Reduce(Tail(keys), params, acc \o keys[1] \o Lookup(params, keys[1]))

\* url + Object.keys(params).sort().reduce(..., '')
SignatureString(url, params) ==
  url \o Reduce(Sort(ObjectKeys(params)), params, <<>>)

RECURSIVE Utf8(_)
\* The bytes .update(s, 'utf-8') hashes.
Utf8(s) ==
  IF s = <<>> THEN <<>>
  ELSE (IF s[1] < 128 THEN <<s[1]>>
        ELSE <<192 + (s[1] \div 64), 128 + (s[1] % 64)>>) \o Utf8(Tail(s))

----------------------------------------------------------------------------
(* base64, as Buffer and Hmac.digest implement it *)

\* The character of a 6-bit value in the standard alphabet.
B64Code(v) ==
  IF v < 26 THEN 65 + v
  ELSE IF v < 52 THEN 97 + (v - 26)
  ELSE IF v < 62 THEN 48 + (v - 52)
  ELSE IF v = 62 THEN 43 ELSE 47

\* The 6-bit value of a character, -1 for a character outside the alphabet.
\* The decoder also takes the URL-safe '-' and '_'.
Unbase64(c) ==
  IF c >= 65 /\ c <= 90 THEN c - 65
  ELSE IF c >= 97 /\ c <= 122 THEN c - 97 + 26
  ELSE IF c >= 48 /\ c <= 57 THEN c - 48 + 52
  ELSE IF c = 43 \/ c = 45 THEN 62
  ELSE IF c = 47 \/ c = 95 THEN 63
  ELSE -1

RECURSIVE Base64Encode(_)
\* digest('base64'): standard base64 with '=' padding.
Base64Encode(b) ==
  IF Len(b) = 0 THEN <<>>
  ELSE IF Len(b) = 1 THEN
    <<B64Code(b[1] \div 4), B64Code((b[1] % 4) * 16), 61, 61>>
  ELSE IF Len(b) = 2 THEN
    <<B64Code(b[1] \div 4), B64Code((b[1] % 4) * 16 + (b[2] \div 16)),
      B64Code((b[2] % 16) * 4), 61>>
  ELSE
    <<B64Code(b[1] \div 4), B64Code((b[1] % 4) * 16 + (b[2] \div 16)),
      B64Code((b[2] % 16) * 4 + (b[3] \div 64)), B64Code(b[3] % 64)>>
    \o Base64Encode(SubSeq(b, 4, Len(b)))

RECURSIVE Sextets(_)
\* The 6-bit values the decoder reads: a character outside the alphabet is
\* skipped, and '=' ends the decoding.
Sextets(s) ==
  IF s = <<>> THEN <<>>
  ELSE IF Unbase64(s[1]) >= 0 THEN <<Unbase64(s[1])>> \o Sextets(Tail(s))
  ELSE IF s[1] = 61 THEN <<>>
  ELSE Sextets(Tail(s))

RECURSIVE GroupBytes(_)
\* The bytes of the 6-bit values, four values to three bytes; the bits of an
\* incomplete last group that do not fill a byte are dropped.
GroupBytes(v) ==
  IF Len(v) < 2 THEN <<>>
  ELSE IF Len(v) = 2 THEN <<v[1] * 4 + (v[2] \div 16)>>
  ELSE IF Len(v) = 3 THEN
    <<v[1] * 4 + (v[2] \div 16), (v[2] % 16) * 16 + (v[3] \div 4)>>
  ELSE
    <<v[1] * 4 + (v[2] \div 16), (v[2] % 16) * 16 + (v[3] \div 4),
      (v[3] % 4) * 64 + v[4]>>
    \o GroupBytes(SubSeq(v, 5, Len(v)))

\* The size of the buffer allocated for a base64 string.
DecodedSize(s) ==
  LET n0 == Len(s)
      n1 == IF n0 >= 2 /\ s[n0] = 61 THEN n0 - 1 ELSE n0
      n2 == IF n0 >= 2 /\ n1 < n0 /\ s[n1] = 61 THEN n1 - 1 ELSE n1
      whole == (n2 \div 4) * 3
      r == n2 % 4
  IN IF n0 < 2 THEN 0
     ELSE IF r = 0 THEN whole
     ELSE IF whole = 0 /\ r = 1 THEN 0
     ELSE whole + 1 + (IF r = 3 THEN 1 ELSE 0)

\* Buffer.from(s, 'base64')
Base64Decode(s) ==
  Const(GroupBytes(Sextets(s)),
        LAMBDA b : IF Len(b) <= DecodedSize(s) THEN b
                   ELSE SubSeq(b, 1, DecodedSize(s)))

----------------------------------------------------------------------------
(* HMAC-SHA1 *)

\* The length in bytes of a SHA-1 digest.
DigestLen == 20

RECURSIVE Absorb(_, _)
Absorb(bytes, h) ==
  IF bytes = <<>> THEN h
  ELSE Absorb(Tail(bytes), (h * 31 + bytes[1] + 1) % 65521)

\* A digest that does not depend on the key.
HmacSha1M(key, msg) ==
  [i \in 1..DigestLen |-> (Absorb(msg, 21) * (i + 2) + i * i * 37) % 256]

\* crypto.createHmac('sha1', key).update(msg): a keyed digest of DigestLen
\* bytes.  The compression function is replaced by a small keyed mixing
\* function: the digest depends on the key and on every byte of the message,
\* and no two of the (key, message) pairs of this model share a digest.
HmacSha1(key, msg) ==
  Const(Absorb(msg, Absorb(key, 7) * 3 % 65521),
        LAMBDA h : [i \in 1..DigestLen |->
                      IF i = 1 THEN h % 256
                      ELSE IF i = 2 THEN (h \div 256) % 256
                      ELSE ((h + 11) * (i + 2) + i * i * 37) % 256])

\* A comparison of the lengths only.
TimingSafeEqualM(a, b) ==
  [threw |-> Len(a) # Len(b), ret |-> Len(a) = Len(b)]

\* crypto.timingSafeEqual(a, b): a RangeError when the lengths differ.
TimingSafeEqual(a, b) ==
  Const(<<a, b>>,
        LAMBDA ab : [threw |-> Len(ab[1]) # Len(ab[2]),
                     ret |-> Len(ab[1]) = Len(ab[2]) /\ ab[1] = ab[2]])

----------------------------------------------------------------------------
(* TwilioSignatureValidator *)

\* The try block of validateSignature: whether it threw, the value it
\* returned, and whether it got as far as computing the HMAC.
ValidateSignatureTry(signature, url, params, authToken) ==
  IF params = UndefinedParams
  THEN \* Object.keys(undefined): TypeError
       [threw |-> TRUE, ret |-> FALSE, hmac |-> FALSE]
  ELSE
    LET signatureString == SignatureString(url, params)
        expectedSignature ==
          Base64Encode(HmacSha1(Utf8(authToken), Utf8(signatureString)))
    IN IF signature = Undefined
       THEN \* Buffer.from(undefined, 'base64'): TypeError
            [threw |-> TRUE, ret |-> FALSE, hmac |-> TRUE]
       ELSE
         Const(TimingSafeEqual(Base64Decode(signature),
                               Base64Decode(expectedSignature)),
               LAMBDA eq : [threw |-> eq.threw, ret |-> eq.ret, hmac |-> TRUE])

\* validateSignature without its catch clause.
ValidateSignatureM(signature, url, params, authToken) ==
  ValidateSignatureTry(signature, url, params, authToken)

\* validateSignature: the try block, and false from the catch clause.
ValidateSignature(signature, url, params, authToken) ==
  Const(ValidateSignatureTry(signature, url, params, authToken),
        LAMBDA t : [threw |-> FALSE, ret |-> ~t.threw /\ t.ret,
                    hmac |-> t.hmac])

\* A search that tries the first token only.
SomeCallsM(v) == 1

\* The number of calls authTokens.some(token => ...) makes, given the
\* results v of the calls: up to and including the first call that returns
\* true or throws, all of them when there is none.
SomeCalls(v) ==
  IF \A i \in DOMAIN v : ~(v[i].threw \/ v[i].ret) THEN Len(v)
  ELSE CHOOSE i \in DOMAIN v :
         /\ v[i].threw \/ v[i].ret
         /\ \A j \in 1..(i - 1) : ~(v[j].threw \/ v[j].ret)

\* !signature, for the value req.get() returned.
IsMissingM(signature) == FALSE

IsMissing(signature) == Falsy(signature)

\* The handler middleware() returns, applied to a request: how it ends
\* (next(), one of the two 403 responses, or an exception reaching Express),
\* the tokens validateSignature was called with, in order, and the number of
\* HMACs computed.
Middleware(authTokens, r) ==
  IF IsMissing(r.signature)
  THEN [outcome |-> "403 missing", tried |-> <<>>, hmacs |-> 0]
  ELSE
    Const([i \in 1..Len(authTokens) |->
             ValidateSignature(r.signature, r.url, r.params, authTokens[i])],
          LAMBDA v :
            [outcome |-> IF v[SomeCalls(v)].threw THEN "thrown"
                         ELSE IF v[SomeCalls(v)].ret THEN "next"
                         ELSE "403 invalid",
             tried |-> SubSeq(authTokens, 1, SomeCalls(v)),
             hmacs |-> Cardinality({i \in 1..SomeCalls(v) : v[i].hmac})])

\* A constructor that refuses the empty array only.
ConstructorM(authTokens, accountSid) ==
  LET tokens == IF authTokens.isArray THEN authTokens.items
                ELSE <<authTokens.value>>
  IN IF Len(tokens) = 0 \/ Falsy(accountSid)
     THEN [threw |-> TRUE, authTokens |-> <<>>, accountSid |-> Undefined]
     ELSE [threw |-> FALSE, authTokens |-> tokens, accountSid |-> accountSid]

\* The constructor: the authTokens and accountSid of the new object, or
\* threw when it throws.
Constructor(authTokens, accountSid) ==
  LET tokens == IF authTokens.isArray THEN authTokens.items
                ELSE <<authTokens.value>>
  IN IF Len(tokens) = 0 \/ \E i \in 1..Len(tokens) : Falsy(tokens[i])
     THEN [threw |-> TRUE, authTokens |-> <<>>, accountSid |-> Undefined]
     ELSE IF Falsy(accountSid)
     THEN [threw |-> TRUE, authTokens |-> <<>>, accountSid |-> Undefined]
     ELSE [threw |-> FALSE, authTokens |-> tokens, accountSid |-> accountSid]

----------------------------------------------------------------------------
(* The sender, and the inputs of the model *)

\* The longest key ring deployed, and the most parameters of a request.
MaxTokens == 2

MaxParams == 2

\* "old", "new": the two tokens of a rotation; "x": a key that is in no ring.
OldToken == <<111, 108, 100>>

NewToken == <<110, 101, 119>>

OtherToken == <<120>>

\* "AC"
AccountSid == <<65, 67>>

\* "/sms", "/voice" (the routes of server.js)
UrlSms == <<47, 115, 109, 115>>

UrlVoice == <<47, 118, 111, 105, 99, 101>>

\* From=+1, Body=hi, To=+2
From1 == <<<<70, 114, 111, 109>>, <<43, 49>>>>

BodyHi == <<<<66, 111, 100, 121>>, <<104, 105>>>>

To2 == <<<<84, 111>>, <<43, 50>>>>

\* The objects of at most n parameters, in every insertion order.
Objects(n) ==
  UNION {{p \in [1..m -> {From1, BodyHi, To2}] :
            \A i, j \in 1..m : p[i] = p[j] => i = j} : m \in 0..n}

\* The arrays of 1..n tokens.
Rings(n) == UNION {[1..m -> {OldToken, NewToken}] : m \in 1..n}

\* What Twilio signs: the URL, then every parameter's name and value, the
\* names in ascending order.
Canonical(url, params) ==
  LET n == Len(params)
      rank(i) == Cardinality({j \in 1..n : StrLess(params[j][1], params[i][1])})
      at(k) == CHOOSE i \in 1..n : rank(i) = k - 1
      RECURSIVE from(_)
      from(k) == IF k > n THEN <<>>
                 ELSE params[at(k)][1] \o params[at(k)][2] \o from(k + 1)
  IN url \o from(1)

\* The X-Twilio-Signature header of a request signed with key.
Sign(url, params, key) ==
  Base64Encode(HmacSha1(Utf8(key), Utf8(Canonical(url, params))))

\* The string s with bit b of its character at position p changed.
FlipBit(s, p, b) ==
  LET w == IF b = 0 THEN 1 ELSE IF b = 1 THEN 2 ELSE IF b = 2 THEN 4
           ELSE IF b = 3 THEN 8 ELSE IF b = 4 THEN 16 ELSE IF b = 5 THEN 32
           ELSE IF b = 6 THEN 64 ELSE 128
  IN [s EXCEPT ![p] = IF (s[p] \div w) % 2 = 1 THEN s[p] - w ELSE s[p] + w]

\* "invalid-signature" (the README's curl test)
InvalidSignatureText ==
  <<105, 110, 118, 97, 108, 105, 100, 45, 115, 105, 103, 110, 97, 116, 117,
    114, 101>>

\* How a sender fills the header: not at all ("absent"), with the empty
\* string, with a fixed text, with the signature under a key ("signed"), with
\* that signature followed by '!' ("suffixed"), or with that signature
\* changed in bit `bit` of character `pos` ("flip").
How(kind, key, pos, bit) == [kind |-> kind, key |-> key, pos |-> pos, bit |-> bit]

Hows ==
  {How(k, <<>>, 0, 0) : k \in {"absent", "empty", "text"}}
  \cup {How("signed", t, 0, 0) : t \in {OldToken, NewToken, OtherToken}}
  \cup {How("suffixed", OldToken, 0, 0)}

FlipHows ==
  {How("flip", OldToken, p, b) : p \in 1..28, b \in 0..7}

\* A request: the URL the handler builds for it (protocol, host and
\* originalUrl), its parsed body, and how its header was made.
Request(url, params, how) == [url |-> url, params |-> params, how |-> how]

\* The value of the X-Twilio-Signature header of a request.
HeaderOf(r) ==
  LET signed == Sign(r.url, IF r.params = UndefinedParams THEN <<>>
                            ELSE r.params, r.how.key)
  IN IF r.how.kind = "absent" THEN Undefined
     ELSE IF r.how.kind = "empty" THEN <<>>
     ELSE IF r.how.kind = "text" THEN InvalidSignatureText
     ELSE IF r.how.kind = "signed" THEN signed
     ELSE IF r.how.kind = "suffixed" THEN signed \o <<33>>
     ELSE FlipBit(signed, r.how.pos, r.how.bit)

\* The constructor arguments that are refused, and the single tokens.
OtherArgs ==
  {Arr(<<>>), Arr(<<OldToken, <<>>>>), Arr(<<Undefined>>),
   Single(OldToken), Single(NewToken), Single(<<>>), Single(Undefined)}

----------------------------------------------------------------------------
(* The state machine *)

NoRequest == Request(<<>>, <<>>, How("none", <<>>, 0, 0))

NoResult ==
  [outcome |-> "none", tried |-> <<>>, hmacs |-> 0, ring |-> <<>>,
   swapped |-> FALSE, signature |-> Undefined]

\* The result of a request that waits for its handler.
Pending ==
  [outcome |-> "pending", tried |-> <<>>, hmacs |-> 0, ring |-> <<>>,
   swapped |-> FALSE, signature |-> Undefined]

\* new TwilioSignatureValidator(authTokens, accountSid) at process start
\* (server.js): a throw leaves the process without a validator.  swapped
\* notes, for a request that waits for its handler, that the validator was
\* replaced meanwhile.
Construct(authTokens, accountSid) ==
  /\ \E c \in {Constructor(authTokens, accountSid)} :
       validator' = [ok |-> ~c.threw, authTokens |-> c.authTokens,
                     accountSid |-> c.accountSid]
  /\ ctor' = [arg |-> authTokens, sid |-> accountSid]
  /\ res' = IF res.outcome = "pending" THEN [res EXCEPT !.swapped = TRUE]
            ELSE res
  /\ UNCHANGED <<req, prev>>

\* A request reaches the server.  prev keeps the ring under which the request
\* before it was accepted, when that was the very same request.
Arrive(r) ==
  /\ res.outcome # "pending"
  /\ req' = r
  /\ res' = Pending
  /\ prev' = IF req = r /\ res.outcome = "next" THEN res.ring ELSE <<>>
  /\ UNCHANGED <<validator, ctor>>

\* The handler runs on the request, to its end.
Handle ==
  /\ validator.ok
  /\ res.outcome = "pending"
  /\ \E sig \in {HeaderOf(req)} :
       \E m \in {Middleware(validator.authTokens,
                            [signature |-> sig, url |-> req.url,
                             params |-> req.params])} :
         res' = [outcome |-> m.outcome, tried |-> m.tried, hmacs |-> m.hmacs,
                 ring |-> validator.authTokens, swapped |-> res.swapped,
                 signature |-> sig]
  /\ UNCHANGED <<validator, ctor, req, prev>>

InitFrom(args, sids) ==
  /\ \E a \in args, sid \in sids :
       \E c \in {Constructor(a, sid)} :
          /\ validator = [ok |-> ~c.threw, authTokens |-> c.authTokens,
                          accountSid |-> c.accountSid]
          /\ ctor = [arg |-> a, sid |-> sid]
  /\ req = NoRequest
  /\ res = NoResult
  /\ prev = <<>>

\* The rotation deployments: every ring of at most MaxTokens tokens.
RingArgs == {Arr(t) : t \in Rings(MaxTokens)}

Requests ==
  {Request(u, p, h) : u \in {UrlSms, UrlVoice},
                      p \in {<<>>, <<From1, BodyHi>>, UndefinedParams},
                      h \in Hows}

Init == InitFrom(RingArgs, {AccountSid})

Deploy == \E a \in RingArgs : Construct(a, AccountSid)

Receive == \E r \in Requests : Arrive(r)

Next == Deploy \/ Receive \/ Handle

Spec == Init /\ [][Next]_vars

\* The deployments of the constructor's cases: the rings, the refused
\* arguments and the single tokens, with and without an account SID.
AllArgs == RingArgs \cup OtherArgs

FewRequests ==
  {Request(UrlSms, <<From1>>, h) :
     h \in {How("absent", <<>>, 0, 0), How("signed", OldToken, 0, 0),
            How("signed", NewToken, 0, 0)}}

InitCtor == InitFrom(AllArgs, {AccountSid, Undefined})

DeployAny == \E a \in AllArgs, sid \in {AccountSid, Undefined} : Construct(a, sid)

ReceiveFew == \E r \in FewRequests : Arrive(r)

NextCtor == DeployAny \/ ReceiveFew \/ Handle

SpecCtor == InitCtor /\ [][NextCtor]_vars

\* Requests of up to MaxParams parameters in every insertion order.
CanonRequests ==
  {Request(u, p, h) : u \in {UrlSms, UrlVoice}, p \in Objects(MaxParams),
                      h \in {How("signed", OldToken, 0, 0),
                             How("signed", OtherToken, 0, 0)}}

CanonArgs == {Arr(<<OldToken>>), Arr(<<NewToken, OldToken>>)}

InitCanon == InitFrom(CanonArgs, {AccountSid})

DeployCanon == \E a \in CanonArgs : Construct(a, AccountSid)

ReceiveCanon == \E r \in CanonRequests : Arrive(r)

NextCanon == DeployCanon \/ ReceiveCanon \/ Handle

SpecCanon == InitCanon /\ [][NextCanon]_vars

\* Requests whose signature is a valid one with one bit changed.
FlipRequests ==
  {Request(UrlSms, p, h) : p \in {<<>>, <<From1, BodyHi>>}, h \in FlipHows}

FlipArgs == {Arr(<<OldToken>>), Arr(<<NewToken, OldToken>>)}

InitFlip == InitFrom(FlipArgs, {AccountSid})

DeployFlip == \E a \in FlipArgs : Construct(a, AccountSid)

ReceiveFlip == \E r \in FlipRequests : Arrive(r)

NextFlip == DeployFlip \/ ReceiveFlip \/ Handle

SpecFlip == InitFlip /\ [][NextFlip]_vars

----------------------------------------------------------------------------
(* Properties *)

\* The handler has run on the request req and res is how it ended.
Done == res.outcome \notin {"none", "pending"}

HasBody == req.params # UndefinedParams

\* Token t is in the ring the handler used.
InRing(t) == \E i \in 1..Len(res.ring) : res.ring[i] = t

\* The header decodes to the digest of the request under token t.
Matches(t) ==
  /\ HasBody
  /\ res.signature # Undefined
  /\ Base64Decode(res.signature)
       = HmacSha1(Utf8(t), Utf8(Canonical(req.url, req.params)))

\* s is base64 text: characters of the standard alphabet, in groups of
\* four, the last group padded with at most two '='.
IsBase64(s) ==
  /\ Len(s) % 4 = 0
  /\ \A i \in 1..Len(s) :
       \/ Unbase64(s[i]) >= 0 /\ s[i] # 45 /\ s[i] # 95
       \/ s[i] = 61 /\ i >= Len(s) - 1 /\ (i = Len(s) - 1 => s[Len(s)] = 61)

\* C1: a request signed with a key of the ring in effect, at any position,
\* is accepted: validateSignature returns true for that key and the handler
\* ends in next().
C1_SignedByRingKeyAccepted ==
  (Done /\ HasBody /\ req.how.kind = "signed" /\ InRing(req.how.key)) =>
    /\ res.outcome = "next"
    /\ ValidateSignature(res.signature, req.url, req.params, req.how.key).ret

C1_Witness ==
  /\ Done /\ req.how.kind = "signed" /\ req.how.key = NewToken
  /\ res.ring = <<OldToken, NewToken>>
  /\ req.params = <<From1, BodyHi>>
  /\ res.outcome = "next"

\* C2: the handler ends in next() exactly when some token of the ring in
\* effect gives the digest the header decodes to, and otherwise in a 403
\* response; it ends in no other way.
C2_NextIffSomeKeyMatches ==
  Done =>
    /\ res.outcome \in {"next", "403 missing", "403 invalid"}
    /\ res.outcome = "next" <=> \E i \in 1..Len(res.ring) : Matches(res.ring[i])

C2_Witness ==
  /\ Done /\ req.how.kind = "signed" /\ req.how.key = OtherToken
  /\ HasBody /\ Len(res.ring) = 2 /\ res.outcome = "403 invalid"

\* C3: a request without a signature header value ends in the 403 "missing"
\* response, whatever the ring and the request, and validateSignature is not
\* called and no HMAC is computed for it.
C3_MissingSignatureNoHashing ==
  (Done /\ Falsy(res.signature)) =>
    res.outcome = "403 missing" /\ res.tried = <<>> /\ res.hmacs = 0

C3_Witness ==
  /\ Done /\ req.how.kind = "absent" /\ Len(res.ring) = 2
  /\ req.params = <<From1, BodyHi>> /\ res.outcome = "403 missing"

\* C4: a header that is present but is not base64 is rejected without any
\* HMAC having been computed.
C4_MalformedRejectedBeforeHashing ==
  (Done /\ ~Falsy(res.signature) /\ ~IsBase64(res.signature)) =>
    res.outcome = "403 invalid" /\ res.hmacs = 0

\* C5: a signature valid for a key of the ring, with any one bit changed, is
\* rejected.
C5_BitFlipRejected ==
  (Done /\ req.how.kind = "flip" /\ InRing(req.how.key)) =>
    res.outcome = "403 invalid"

\* C6: under the ring [old, new] a request signed with either token is
\* accepted; under the ring [new] a signed request is accepted exactly when
\* it was signed with new, so the request signed with old that was accepted
\* under [old, new] is rejected when it comes again after the replacement.
C6_Rotation ==
  (Done /\ HasBody /\ req.how.kind = "signed") =>
    /\ (res.ring = <<OldToken, NewToken>> /\ req.how.key \in {OldToken, NewToken})
         => res.outcome = "next"
    /\ res.ring = <<NewToken>>
         => (res.outcome = "next" <=> req.how.key = NewToken)
    /\ (prev = <<OldToken, NewToken>> /\ res.ring = <<NewToken>>
          /\ req.how.key = OldToken)
         => res.outcome = "403 invalid"

C6_Witness ==
  /\ Done /\ HasBody /\ req.how.kind = "signed" /\ req.how.key = OldToken
  /\ prev = <<OldToken, NewToken>>
  /\ res.ring = <<NewToken>> /\ res.outcome = "403 invalid"

\* C7: the handler ends in next() or in a 403 response and never in an
\* exception, and validateSignature returns a boolean without throwing, for
\* every header and every body, a missing body included.
C7_NeverThrows ==
  Done =>
    /\ res.outcome # "thrown"
    /\ ~ValidateSignature(res.signature, req.url, req.params,
                          res.ring[1]).threw

C7_Witness ==
  /\ Done /\ ~HasBody /\ req.how.kind = "text" /\ res.outcome = "403 invalid"
  /\ ValidateSignatureTry(res.signature, req.url, req.params, res.ring[1]).threw

\* The orders of the parameters of an object.
Reorderings(params) ==
  {[i \in 1..Len(params) |-> params[f[i]]] :
     f \in {g \in [1..Len(params) -> 1..Len(params)] :
              \A i, j \in 1..Len(params) : g[i] = g[j] => i = j}}

\* C8: the string that is signed does not depend on the insertion order of
\* the parameters: every reordering of the body gives the same string, the
\* URL followed by name and value in ascending name order (the URL alone for
\* an empty body), and the same end of the handler.
C8_OrderIndependent ==
  (Done /\ HasBody) =>
    \A q \in Reorderings(req.params) :
      /\ SignatureString(req.url, q) = SignatureString(req.url, req.params)
      /\ SignatureString(req.url, q) = Canonical(req.url, req.params)
      /\ req.params = <<>> => SignatureString(req.url, q) = req.url
      /\ Middleware(res.ring, [signature |-> res.signature, url |-> req.url,
                               params |-> q]).outcome = res.outcome

C8_Witness ==
  /\ Done /\ Len(req.params) = 2
  /\ StrLess(req.params[2][1], req.params[1][1])
  /\ res.outcome = "next"

\* C9: a verification is decided against one whole key ring, the one in
\* effect when the handler ran, also when the ring was replaced while the
\* request was in flight: the tokens tried are that ring's tokens in order,
\* up to the first that matches, and all of them when the request is
\* rejected.
C9_DecidedAgainstOneWholeRing ==
  (Done /\ ~Falsy(res.signature)) =>
    /\ res.ring \in Rings(MaxTokens)
    /\ \E n \in 1..Len(res.ring) :
         /\ res.tried = SubSeq(res.ring, 1, n)
         /\ \A j \in 1..(n - 1) : ~Matches(res.ring[j])
         /\ \/ Matches(res.ring[n]) /\ res.outcome = "next"
            \/ /\ n = Len(res.ring) /\ ~Matches(res.ring[n])
               /\ res.outcome = "403 invalid"

C9_Witness ==
  /\ Done /\ HasBody /\ req.how.kind = "signed" /\ req.how.key = OldToken
  /\ res.swapped /\ res.ring = <<NewToken>>
  /\ res.tried = <<NewToken>> /\ res.outcome = "403 invalid"

\* C10: a validator exists only with a ring of at least one token and no
\* empty token, and so has every ring a verification ran against; the
\* constructor throws for an empty array, for an array with an empty or
\* missing entry and for a missing single token, and a single token becomes
\* the ring of that one token.
C10_KeyRingInvariant ==
  /\ validator.ok =>
       /\ Len(validator.authTokens) >= 1
       /\ \A i \in 1..Len(validator.authTokens) : ~Falsy(validator.authTokens[i])
  /\ Done =>
       /\ Len(res.ring) >= 1
       /\ \A i \in 1..Len(res.ring) : ~Falsy(res.ring[i])
  /\ ctor.arg.isArray =>
       ((ctor.arg.items = <<>>
           \/ \E i \in 1..Len(ctor.arg.items) : Falsy(ctor.arg.items[i]))
          => ~validator.ok)
  /\ ~ctor.arg.isArray =>
       /\ Falsy(ctor.arg.value) => ~validator.ok
       /\ (~Falsy(ctor.arg.value) /\ ~Falsy(ctor.sid)) =>
            validator.ok /\ validator.authTokens = <<ctor.arg.value>>

C10_Witness ==
  /\ ~ctor.arg.isArray /\ validator.ok /\ validator.authTokens = <<OldToken>>
  /\ Done /\ res.ring = <<OldToken>> /\ res.outcome = "next"

====
